---- MODULE Spec2Model ----
(***************************************************************************)
(* Model of InventoryManager (src/inventory_system.py): one in-memory      *)
(* mapping from item name to record, the JSON file it is saved to and      *)
(* loaded from, and one action per public method.                          *)
(*                                                                         *)
(* Python values are encoded as records of one fixed shape so that any two *)
(* of them can be compared:                                                *)
(*   _stock_data : [kind, items, n]   kind "dict" (items: the entries in   *)
(*                 insertion order), "list" (the JSON array []), "int"     *)
(*                 (the JSON number n).  json.load returns whatever the    *)
(*                 file holds, so all three are values of the attribute.   *)
(*   a record    : [kind, qt, q, qs, tt, tags]   kind "dict" with an       *)
(*                 optional "quantity" (qt "int": q, "str": qs, "none":    *)
(*                 key absent) and an optional "tags" (tt "list": tags,    *)
(*                 "none": key absent), or kind "int" (the number q).      *)
(* The order of the two keys inside a record is not modelled.              *)
(***************************************************************************)
EXTENDS Integers, Sequences, FiniteSets, TLC

\* Longest tags list passed to add_item.
MaxTagLen == 1

\* threshold: int = 5 in check_low_items.
DefaultThreshold == 5

ItemNames == {"Pen", "Notebook"}
TagNames == {"stationery"}
Quantities == {-1, 7, 15}
Thresholds == {DefaultThreshold, 8}

TagSeqs == UNION {[1..n -> TagNames] : n \in 0..MaxTagLen}
\* The tags argument: None (the default) or a list.
TagArgs == {[none |-> TRUE, seq |-> <<>>]} \cup {[none |-> FALSE, seq |-> s] : s \in TagSeqs}

VARIABLES stock, file, call, prev, raised, ret, log
vars == <<stock, file, call, prev, raised, ret, log>>

(***************************************************************************)
(* Values                                                                  *)
(***************************************************************************)
DictRec(qt, q, qs, tt, tags) ==
    [kind |-> "dict", qt |-> qt, q |-> q, qs |-> qs, tt |-> tt, tags |-> tags]
\* {"quantity": quantity, "tags": tags}
ItemRecord(quantity, tags) == DictRec("int", quantity, "", "list", tags)
IntRec(n) == [kind |-> "int", qt |-> "none", q |-> n, qs |-> "", tt |-> "none", tags |-> <<>>]

DictStore(items) == [kind |-> "dict", items |-> items, n |-> 0]
ListStore == [kind |-> "list", items |-> <<>>, n |-> 0]
IntStore(n) == [kind |-> "int", items |-> <<>>, n |-> n]
EmptyStore == DictStore(<<>>)

RetNone == [kind |-> "None", n |-> 0, s |-> "", names |-> <<>>]
RetInt(n) == [kind |-> "int", n |-> n, s |-> "", names |-> <<>>]
RetStr(s, n) == [kind |-> "str", n |-> n, s |-> s, names |-> <<>>]
RetList(names) == [kind |-> "list", n |-> 0, s |-> "", names |-> names]

(***************************************************************************)
(* Python dict, as a sequence of [name, rec] entries in insertion order.   *)
(***************************************************************************)
Keys(items) == {items[i].name : i \in 1..Len(items)}
DictHas(items, name) == name \in Keys(items)
IndexOf(items, name) == CHOOSE i \in 1..Len(items) : items[i].name = name
DictGet(items, name) == items[IndexOf(items, name)].rec
\* d[name] = rec: an existing key keeps its position, a new one goes last.
DictSet(items, name, rec) ==
    IF DictHas(items, name)
    THEN [items EXCEPT ![IndexOf(items, name)] = [name |-> name, rec |-> rec]]
    ELSE Append(items, [name |-> name, rec |-> rec])
\* del d[name], for a key that is present.
DictDel(items, name) ==
    LET k == IndexOf(items, name)
    IN [i \in 1..(Len(items) - 1) |-> IF i < k THEN items[i] ELSE items[i + 1]]
\* d1 == d2 in Python: same keys, equal values, whatever the order.
DictEq(a, b) ==
    /\ Keys(a) = Keys(b)
    /\ \A name \in Keys(a) : DictGet(a, name) = DictGet(b, name)
StoreEq(a, b) == a.kind = b.kind /\ a.n = b.n /\ DictEq(a.items, b.items)

(***************************************************************************)
(* JSON text, as the sequence of its tokens (whitespace and the indent=4   *)
(* layout carry no value and are left out).                                *)
(***************************************************************************)
Tok(t, s, n) == [t |-> t, s |-> s, n |-> n]
LBrace == Tok("{", "", 0)
RBrace == Tok("}", "", 0)
LBracket == Tok("[", "", 0)
RBracket == Tok("]", "", 0)
Colon == Tok(":", "", 0)
Comma == Tok(",", "", 0)
Str(s) == Tok("str", s, 0)
Num(n) == Tok("num", "", n)
Eof == Tok("eof", "", 0)
TokAt(toks, i) == IF i \in 1..Len(toks) THEN toks[i] ELSE Eof

\* json.dump of a list of strings.
RECURSIVE DumpElems(_, _)
DumpElems(tags, i) ==
    IF i > Len(tags) THEN <<>>
    ELSE (IF i > 1 THEN <<Comma>> ELSE <<>>) \o <<Str(tags[i])>> \o DumpElems(tags, i + 1)
DumpTags(tags) == <<LBracket>> \o DumpElems(tags, 1) \o <<RBracket>>

\* A serializer that writes the quantity of a record and drops its tags.
DumpRecQuantityOnly(rec) ==
    IF rec.kind = "int" THEN <<Num(rec.q)>>
    ELSE IF rec.qt = "int" THEN <<LBrace, Str("quantity"), Colon, Num(rec.q), RBrace>>
    ELSE IF rec.qt = "str" THEN <<LBrace, Str("quantity"), Colon, Str(rec.qs), RBrace>>
    ELSE <<LBrace, RBrace>>

\* json.dump of one record.
DumpRec(rec) ==
    IF rec.kind = "int" THEN <<Num(rec.q)>>
    ELSE LET qpart == IF rec.qt = "int" THEN <<Str("quantity"), Colon, Num(rec.q)>>
                      ELSE IF rec.qt = "str" THEN <<Str("quantity"), Colon, Str(rec.qs)>>
                      ELSE <<>>
             tpart == IF rec.tt = "list" THEN <<Str("tags"), Colon>> \o DumpTags(rec.tags)
                      ELSE <<>>
             sep == IF rec.qt # "none" /\ rec.tt # "none" THEN <<Comma>> ELSE <<>>
         IN <<LBrace>> \o qpart \o sep \o tpart \o <<RBrace>>

RECURSIVE DumpMembers(_, _)
DumpMembers(items, i) ==
    IF i > Len(items) THEN <<>>
    ELSE (IF i > 1 THEN <<Comma>> ELSE <<>>)
         \o <<Str(items[i].name), Colon>> \o DumpRec(items[i].rec)
         \o DumpMembers(items, i + 1)

\* json.dump(self._stock_data, file, indent=4)
JsonDump(s) ==
    IF s.kind = "dict" THEN <<LBrace>> \o DumpMembers(s.items, 1) \o <<RBrace>>
    ELSE IF s.kind = "list" THEN <<LBracket, RBracket>>
    ELSE <<Num(s.n)>>

(***************************************************************************)
(* json.load: a recursive-descent parse of the token sequence.  Each parse *)
(* returns [ok, val, next]; ok = FALSE is json.JSONDecodeError.  The       *)
(* grammar covers the values of the encoding above: an array holds         *)
(* strings, a record's keys are "quantity" and "tags"; a repeated key      *)
(* keeps its last value, as a Python dict does.                            *)
(***************************************************************************)
ParseFail(val) == [ok |-> FALSE, val |-> val, next |-> 0]
ParseOk(val, next) == [ok |-> TRUE, val |-> val, next |-> next]

RECURSIVE ParseElems(_, _, _)
ParseElems(toks, i, acc) ==
    IF TokAt(toks, i).t # "str" THEN ParseFail(<<>>)
    ELSE LET acc2 == Append(acc, TokAt(toks, i).s)
         IN IF TokAt(toks, i + 1).t = "," THEN ParseElems(toks, i + 2, acc2)
            ELSE IF TokAt(toks, i + 1).t = "]" THEN ParseOk(acc2, i + 2)
            ELSE ParseFail(<<>>)
ParseArray(toks, i) ==
    IF TokAt(toks, i).t # "[" THEN ParseFail(<<>>)
    ELSE IF TokAt(toks, i + 1).t = "]" THEN ParseOk(<<>>, i + 2)
    ELSE ParseElems(toks, i + 1, <<>>)

EmptyRec == DictRec("none", 0, "", "none", <<>>)
RECURSIVE ParseFields(_, _, _)
ParseFields(toks, i, rec) ==
    LET key == TokAt(toks, i)
        v == TokAt(toks, i + 2)
        arr == ParseArray(toks, i + 2)
        ok == /\ key.t = "str"
              /\ TokAt(toks, i + 1).t = ":"
              /\ \/ key.s = "quantity" /\ v.t \in {"num", "str"}
                 \/ key.s = "tags" /\ arr.ok
        rec2 == IF key.s = "quantity"
                THEN IF v.t = "num" THEN [rec EXCEPT !.qt = "int", !.q = v.n, !.qs = ""]
                     ELSE [rec EXCEPT !.qt = "str", !.q = 0, !.qs = v.s]
                ELSE [rec EXCEPT !.tt = "list", !.tags = arr.val]
        j == IF key.s = "quantity" THEN i + 3 ELSE arr.next
    IN IF ~ok THEN ParseFail(EmptyRec)
       ELSE IF TokAt(toks, j).t = "," THEN ParseFields(toks, j + 1, rec2)
       ELSE IF TokAt(toks, j).t = "}" THEN ParseOk(rec2, j + 1)
       ELSE ParseFail(EmptyRec)
ParseRec(toks, i) ==
    IF TokAt(toks, i).t = "num" THEN ParseOk(IntRec(TokAt(toks, i).n), i + 1)
    ELSE IF TokAt(toks, i).t # "{" THEN ParseFail(EmptyRec)
    ELSE IF TokAt(toks, i + 1).t = "}" THEN ParseOk(EmptyRec, i + 2)
    ELSE ParseFields(toks, i + 1, EmptyRec)

RECURSIVE ParseMembers(_, _, _)
ParseMembers(toks, i, items) ==
    LET key == TokAt(toks, i)
        r == ParseRec(toks, i + 2)
    IN IF ~(key.t = "str" /\ TokAt(toks, i + 1).t = ":" /\ r.ok) THEN ParseFail(<<>>)
       ELSE LET items2 == DictSet(items, key.s, r.val)
            IN IF TokAt(toks, r.next).t = "," THEN ParseMembers(toks, r.next + 1, items2)
               ELSE IF TokAt(toks, r.next).t = "}" THEN ParseOk(items2, r.next + 1)
               ELSE ParseFail(<<>>)

\* json.load(file): the whole text is one value, nothing may follow it.
JsonLoad(toks) ==
    LET t == TokAt(toks, 1)
        m == IF TokAt(toks, 2).t = "}" THEN ParseOk(<<>>, 3) ELSE ParseMembers(toks, 2, <<>>)
        r == IF t.t = "{" THEN [ok |-> m.ok, val |-> DictStore(m.val), next |-> m.next]
             ELSE IF t.t = "[" /\ TokAt(toks, 2).t = "]" THEN ParseOk(ListStore, 3)
             ELSE IF t.t = "num" THEN ParseOk(IntStore(t.n), 2)
             ELSE ParseFail(EmptyStore)
    IN IF r.ok /\ r.next = Len(toks) + 1 THEN r ELSE ParseFail(EmptyStore)

(***************************************************************************)
(* The file at the path: absent, present but unreadable (open raises       *)
(* OSError), present with bytes that are not UTF-8, or present with text.  *)
(***************************************************************************)
NoFile == [kind |-> "absent", toks |-> <<>>]
Unreadable == [kind |-> "unreadable", toks |-> <<>>]
BadUtf8 == [kind |-> "badutf8", toks |-> <<>>]
TextFile(toks) == [kind |-> "text", toks |-> toks]

PenRec(toks) == <<LBrace, Str("Pen"), Colon>> \o toks \o <<RBrace>>
\* File contents the program may be started on.
InitialFiles ==
    { NoFile, Unreadable, BadUtf8,
      TextFile(<<>>),                                        \* empty file
      TextFile(<<LBrace, Str("Pen"), Colon, LBrace>>),       \* truncated
      TextFile(<<LBracket, RBracket>>),                      \* []
      TextFile(<<Num(5)>>),                                  \* 5
      TextFile(PenRec(<<Num(5)>>)),                          \* {"Pen": 5}
      TextFile(PenRec(DumpRec(ItemRecord(-1, <<>>)))),       \* negative quantity
      TextFile(PenRec(DumpRec(DictRec("str", 0, "x", "list", <<>>)))),
      TextFile(PenRec(DumpRec(DictRec("int", 7, "", "none", <<>>)))),    \* no tags
      TextFile(PenRec(DumpRec(DictRec("none", 0, "", "list", <<"stationery">>)))),
      TextFile(JsonDump(DictStore(<<[name |-> "Pen", rec |-> ItemRecord(15, <<"stationery">>)],
                                    [name |-> "Notebook", rec |-> ItemRecord(7, <<"stationery">>)]>>))),
      \* a repeated key
      TextFile(<<LBrace, Str("Pen"), Colon, Num(5), Comma, Str("Pen"), Colon>>
               \o DumpRec(ItemRecord(7, <<>>)) \o <<RBrace>>) }

(***************************************************************************)
(* The methods.  Each takes the store s and the file f before the call     *)
(* and gives [stock, file, raised, ret, log]: the store and file after it, *)
(* the exception that left the method ("none": it returned), the value     *)
(* returned and the levels of the messages logged, in order.               *)
(***************************************************************************)
Out(s, f, exc, r, l) == [stock |-> s, file |-> f, raised |-> exc, ret |-> r, log |-> l]

\* self._stock_data.clear()
Clear(s) == IF s.kind = "dict" THEN EmptyStore ELSE s
HasClear(s) == s.kind \in {"dict", "list"}

\* add_item without the quantity < 0 guard.
AddItemNoGuard(s, f, item_name, tags, quantity) ==
    IF s.kind # "dict" THEN Out(s, f, "TypeError", RetNone, <<>>)
    ELSE Out(DictStore(DictSet(s.items, item_name, ItemRecord(quantity, tags.seq))),
             f, "none", RetNone, <<"info">>)

AddItem(s, f, item_name, tags, quantity) ==
    LET t == IF tags.none \/ tags.seq = <<>> THEN <<>> ELSE tags.seq
    IN IF quantity < 0 THEN Out(s, f, "none", RetNone, <<"error">>)
       ELSE IF s.kind # "dict" THEN Out(s, f, "TypeError", RetNone, <<>>)
       ELSE Out(DictStore(DictSet(s.items, item_name, ItemRecord(quantity, t))),
                f, "none", RetNone, <<"info">>)

RemoveItem(s, f, item_name) ==
    IF s.kind # "dict" THEN Out(s, f, "TypeError", RetNone, <<>>)
    ELSE IF DictHas(s.items, item_name)
    THEN Out(DictStore(DictDel(s.items, item_name)), f, "none", RetNone, <<"info">>)
    ELSE Out(s, f, "none", RetNone, <<"warning">>)

GetQuantity(s, f, item_name) ==
    IF s.kind # "dict" THEN Out(s, f, "AttributeError", RetNone, <<>>)
    ELSE IF ~DictHas(s.items, item_name) THEN Out(s, f, "none", RetInt(0), <<>>)
    ELSE LET rec == DictGet(s.items, item_name)
         IN IF rec.kind # "dict" THEN Out(s, f, "AttributeError", RetNone, <<>>)
            ELSE IF rec.qt = "int" THEN Out(s, f, "none", RetInt(rec.q), <<>>)
            ELSE IF rec.qt = "str" THEN Out(s, f, "none", RetStr(rec.qs, 0), <<>>)
            ELSE Out(s, f, "none", RetInt(0), <<>>)

\* A failure branch of load_data: the message, then self._stock_data.clear().
LoadFailed(s, f, level) ==
    IF HasClear(s) THEN Out(Clear(s), f, "none", RetNone, <<level>>)
    ELSE Out(s, f, "AttributeError", RetNone, <<level>>)

RECURSIVE Update(_, _, _)
Update(items, new, i) ==
    IF i > Len(new) THEN items
    ELSE Update(DictSet(items, new[i].name, new[i].rec), new, i + 1)
\* load_data with self._stock_data.update(json.load(file)): a merge.
LoadDataMerge(s, f) ==
    IF f.kind = "absent" THEN LoadFailed(s, f, "warning")
    ELSE IF f.kind = "unreadable" THEN LoadFailed(s, f, "error")
    ELSE IF f.kind = "badutf8" THEN Out(s, f, "UnicodeDecodeError", RetNone, <<>>)
    ELSE LET r == JsonLoad(f.toks)
         IN IF ~r.ok THEN LoadFailed(s, f, "error")
            ELSE IF s.kind = "dict" /\ r.val.kind = "dict"
            THEN Out(DictStore(Update(s.items, r.val.items, 1)), f, "none", RetNone, <<"info">>)
            ELSE Out(r.val, f, "none", RetNone, <<"info">>)

LoadData(s, f) ==
    IF f.kind = "absent" THEN LoadFailed(s, f, "warning")
    ELSE IF f.kind = "unreadable" THEN LoadFailed(s, f, "error")
    ELSE IF f.kind = "badutf8" THEN Out(s, f, "UnicodeDecodeError", RetNone, <<>>)
    ELSE LET r == JsonLoad(f.toks)
         IN IF r.ok THEN Out(r.val, f, "none", RetNone, <<"info">>)
            ELSE LoadFailed(s, f, "error")

\* save_data whose except branch clears the store, as load_data's do.
SaveDataClears(s, f, io) ==
    IF io = "ok" THEN Out(s, TextFile(JsonDump(s)), "none", RetNone, <<"info">>)
    ELSE IF io = "open" THEN Out(Clear(s), f, "none", RetNone, <<"error">>)
    ELSE Out(Clear(s), TextFile(<<>>), "none", RetNone, <<"error">>)

\* io: what the file system does with the write: "ok"; "open" (open raises
\* OSError, the file is untouched); "write" (the file is truncated by open,
\* then writing raises OSError).
SaveData(s, f, io) ==
    IF io = "ok" THEN Out(s, TextFile(JsonDump(s)), "none", RetNone, <<"info">>)
    ELSE IF io = "open" THEN Out(s, f, "none", RetNone, <<"error">>)
    ELSE Out(s, TextFile(<<>>), "none", RetNone, <<"error">>)

\* The loop of print_data from entry i on: one message per item, until a
\* record without details["quantity"] or details["tags"] raises.
RECURSIVE PrintItems(_, _, _)
PrintItems(items, i, l) ==
    IF i > Len(items) THEN [raised |-> "none", log |-> l]
    ELSE LET rec == items[i].rec
         IN IF rec.kind # "dict" THEN [raised |-> "TypeError", log |-> l]
            ELSE IF rec.qt = "none" \/ rec.tt = "none" THEN [raised |-> "KeyError", log |-> l]
            ELSE PrintItems(items, i + 1, Append(l, "info"))

PrintData(s, f) ==
    IF (s.kind = "dict" /\ s.items = <<>>) \/ s.kind = "list" \/ (s.kind = "int" /\ s.n = 0)
    THEN Out(s, f, "none", RetNone, <<"info">>)
    ELSE IF s.kind # "dict" THEN Out(s, f, "AttributeError", RetNone, <<"info">>)
    ELSE LET r == PrintItems(s.items, 1, <<"info">>)
         IN Out(s, f, r.raised, RetNone, r.log)

\* The comprehension of check_low_items from entry i on.
RECURSIVE LowItems(_, _, _, _)
LowItems(items, i, threshold, acc) ==
    IF i > Len(items) THEN [raised |-> "none", names |-> acc]
    ELSE LET rec == items[i].rec
             q == IF rec.qt = "int" THEN rec.q ELSE 0
         IN IF rec.kind # "dict" THEN [raised |-> "AttributeError", names |-> <<>>]
            ELSE IF rec.qt = "str" THEN [raised |-> "TypeError", names |-> <<>>]
            ELSE LowItems(items, i + 1, threshold,
                          IF q < threshold THEN Append(acc, items[i].name) ELSE acc)

CheckLowItems(s, f, threshold) ==
    IF s.kind # "dict" THEN Out(s, f, "AttributeError", RetNone, <<>>)
    ELSE LET r == LowItems(s.items, 1, threshold, <<>>)
         IN IF r.raised # "none" THEN Out(s, f, r.raised, RetNone, <<>>)
            ELSE Out(s, f, "none", RetList(r.names),
                     IF r.names # <<>> THEN <<"warning">> ELSE <<"info">>)

\* __str__
Describe(s, f) ==
    IF s.kind = "int" THEN Out(s, f, "TypeError", RetNone, <<>>)
    ELSE Out(s, f, "none", RetStr("InventoryManager(n items)", Len(s.items)), <<>>)

(***************************************************************************)
(* The state machine: a manager just constructed, the file in any of its   *)
(* initial conditions, and one action per method call.  call and prev      *)
(* record the last call and the store it was made on.                      *)
(***************************************************************************)
Call(op, name, tags, quantity, threshold, io) ==
    [op |-> op, name |-> name, tags |-> tags, quantity |-> quantity,
     threshold |-> threshold, io |-> io]
NoTags == [none |-> TRUE, seq |-> <<>>]
NoCall == Call("__init__", "", NoTags, 0, 0, "")

Init ==
    /\ stock = EmptyStore
    /\ file \in InitialFiles
    /\ call = NoCall
    /\ prev = EmptyStore
    /\ raised = "none"
    /\ ret = RetNone
    /\ log = <<>>

Apply(c, out) ==
    /\ call' = c
    /\ prev' = stock
    /\ stock' = out.stock
    /\ file' = out.file
    /\ raised' = out.raised
    /\ ret' = out.ret
    /\ log' = out.log

add_item ==
    \E n \in ItemNames, t \in TagArgs, q \in Quantities :
        Apply(Call("add_item", n, t, q, 0, ""), AddItem(stock, file, n, t, q))
remove_item ==
    \E n \in ItemNames :
        Apply(Call("remove_item", n, NoTags, 0, 0, ""), RemoveItem(stock, file, n))
get_quantity ==
    \E n \in ItemNames :
        Apply(Call("get_quantity", n, NoTags, 0, 0, ""), GetQuantity(stock, file, n))
load_data ==
    Apply(Call("load_data", "", NoTags, 0, 0, ""), LoadData(stock, file))
save_data ==
    \E io \in {"ok", "open", "write"} :
        Apply(Call("save_data", "", NoTags, 0, 0, io), SaveData(stock, file, io))
print_data ==
    Apply(Call("print_data", "", NoTags, 0, 0, ""), PrintData(stock, file))
check_low_items ==
    \E th \in Thresholds :
        Apply(Call("check_low_items", "", NoTags, 0, th, ""), CheckLowItems(stock, file, th))
describe ==
    Apply(Call("__str__", "", NoTags, 0, 0, ""), Describe(stock, file))

Next ==
    \/ add_item
    \/ remove_item
    \/ get_quantity
    \/ load_data
    \/ save_data
    \/ print_data
    \/ check_low_items
    \/ describe

Spec == Init /\ [][Next]_vars

(***************************************************************************)
(* Properties                                                              *)
(***************************************************************************)
Records(s) == {s.items[i].rec : i \in 1..Len(s.items)}
\* The quantity get_quantity reports for a record of a mapping.
StoredQuantity(rec) == IF rec.qt = "int" THEN rec.q ELSE 0
\* Every name other than n has the same record, or none, in a and in b.
OthersUnchanged(a, b, n) ==
    \A m \in (Keys(a.items) \cup Keys(b.items)) \ {n} :
        /\ DictHas(a.items, m) /\ DictHas(b.items, m)
        /\ DictGet(a.items, m) = DictGet(b.items, m)
Occurrences(seq, x) == Cardinality({i \in 1..Len(seq) : seq[i] = x})
LoadSucceeds == file.kind = "text" /\ JsonLoad(file.toks).ok

\* C1: every record held in the store has a quantity that is a non-negative
\* integer, in every state reachable by add, remove, load and save.
C1_QuantityNonNegative ==
    \A rec \in Records(stock) : rec.kind = "dict" /\ rec.qt = "int" /\ rec.q >= 0

\* C2: add with a negative quantity returns normally and leaves the store
\* exactly as it was, so get_quantity of the name answers as before.
C2_NegativeAddRejected ==
    (call.op = "add_item" /\ call.quantity < 0) =>
        /\ raised = "none"
        /\ stock = prev
        /\ GetQuantity(stock, file, call.name).ret = GetQuantity(prev, file, call.name).ret
C2_Witness ==
    /\ call.op = "add_item" /\ call.quantity < 0
    /\ prev.kind = "dict" /\ DictHas(prev.items, call.name)
    /\ call.tags.seq # <<>>
    /\ DictGet(prev.items, call.name) # ItemRecord(call.quantity, call.tags.seq)

\* C3: add with a quantity >= 0 returns normally in every store state, the
\* record of the name is then exactly {quantity, tags}, get_quantity returns
\* the quantity, and the records of all other names are unchanged.
C3_AddSetsRecord ==
    (call.op = "add_item" /\ call.quantity >= 0) =>
        /\ raised = "none"
        /\ stock.kind = "dict"
        /\ DictHas(stock.items, call.name)
        /\ DictGet(stock.items, call.name) = ItemRecord(call.quantity, call.tags.seq)
        /\ GetQuantity(stock, file, call.name).ret = RetInt(call.quantity)
        /\ OthersUnchanged(prev, stock, call.name)

\* C4: round trip: a successful save of the store followed by a load into a
\* freshly constructed manager gives a store with the same names and, for
\* each name, the same quantity and tags.
C4_RoundTrip ==
    LET saved == SaveData(stock, file, "ok")
        fresh == LoadData(EmptyStore, saved.file)
    IN /\ saved.raised = "none"
       /\ fresh.raised = "none"
       /\ StoreEq(fresh.stock, stock)
C4_Witness ==
    /\ call.op = "load_data" /\ raised = "none"
    /\ prev = EmptyStore
    /\ Len(stock.items) = 2
    /\ stock.items[1].name = "Notebook"
    /\ stock.items[1].rec.tags # <<>>
    /\ file = TextFile(JsonDump(stock))

\* C5: load never raises, and when the file is missing, unreadable or not
\* parseable the store is empty after the call.
C5_LoadNeverRaises ==
    call.op = "load_data" =>
        /\ raised = "none"
        /\ ~LoadSucceeds => (stock.kind # "int" /\ stock.items = <<>>)

\* C6: no operation raises past its boundary; in particular every call made
\* after a load (failed, or successful on any parseable content) returns.
C6_UsableAfterLoad ==
    call.op # "load_data" => raised = "none"

\* C7: remove returns normally, the name is absent afterwards and
\* get_quantity gives 0; an absent name leaves the store unchanged, a
\* present one loses only its own record.
C7_RemoveMakesAbsent ==
    call.op = "remove_item" =>
        /\ raised = "none"
        /\ ~DictHas(stock.items, call.name)
        /\ GetQuantity(stock, file, call.name).ret = RetInt(0)
        /\ ~DictHas(prev.items, call.name) => stock = prev
        /\ OthersUnchanged(prev, stock, call.name)

\* C8: check_low_items returns exactly the names whose stored quantity is
\* strictly below the threshold, each once.
C8_LowStockExact ==
    call.op = "check_low_items" =>
        /\ raised = "none"
        /\ ret.kind = "list"
        /\ \A n \in ItemNames :
            Occurrences(ret.names, n) =
                IF /\ DictHas(stock.items, n)
                   /\ StoredQuantity(DictGet(stock.items, n)) < call.threshold
                THEN 1 ELSE 0

\* C9: when load succeeds the store is exactly the deserialized content of
\* the file: names held before and absent from the file are gone, and no
\* prior record is merged in.
C9_LoadReplaces ==
    (call.op = "load_data" /\ LoadSucceeds) =>
        /\ raised = "none"
        /\ stock = JsonLoad(file.toks).val
        /\ \A n \in Keys(prev.items) \ Keys(JsonLoad(file.toks).val.items) :
            ~DictHas(stock.items, n)
C9_Witness ==
    /\ call.op = "load_data" /\ LoadSucceeds
    /\ stock.kind = "dict"
    /\ \E n \in Keys(prev.items) : ~DictHas(stock.items, n)
    /\ \E n \in Keys(prev.items) :
        DictHas(stock.items, n) /\ DictGet(stock.items, n) # DictGet(prev.items, n)

\* C10: save (successful or not), print_data, check_low_items, get_quantity
\* and __str__ leave the store as it was.
C10_ReadOnly ==
    call.op \in {"save_data", "print_data", "check_low_items", "get_quantity", "__str__"} =>
        stock = prev
C10_Witness ==
    /\ call.op = "save_data" /\ call.io = "write"
    /\ Len(stock.items) = 2
    /\ file = TextFile(<<>>)

====
